---- MODULE Spec2Model ----
(***************************************************************************)
(* LinkedHashMap of src/src/lib.rs: a hashbrown index of node pointers     *)
(* coupled with an intrusive circular doubly linked list anchored by a     *)
(* lazily allocated guard node, plus a singly linked free list of node     *)
(* storage.  The heap is modelled explicitly: node addresses, the fields   *)
(* of every node, and the set of addresses currently allocated.            *)
(***************************************************************************)
EXTENDS Integers, Sequences, FiniteSets, TLC

(* ---- bounds ---- *)
MaxKey == 3
MaxVal == 2
MaxNodes == 5
HashRange == 2
MaxCap == 3

Keys == 1..MaxKey
Values == 1..MaxVal
Nodes == 1..MaxNodes

(* ptr::null_mut() and MaybeUninit::uninit() *)
NULL == 0
Uninit == 0

VARIABLES
    heap,     \* address -> Node {key, value, next, prev}
    alloc,    \* addresses currently owned by a Box (allocated)
    map,      \* LinkedHashMap.map : entries {hash, node} of the hashbrown table
    head,     \* LinkedHashMap.head: the guard node or NULL
    free,     \* LinkedHashMap.free: first node of the free list or NULL
    cap,      \* capacity of the hashbrown table (entries it holds without growing)
    drain,    \* the outstanding Drain {active, head, tail, remaining}
    it,       \* the outstanding Iter {active, head, tail, remaining}
    ub,       \* some operation so far used storage it must not use
    dropped,  \* the container was destroyed; history: what its destructor released
    dlog,     \* history of the outstanding Drain: pairs at drain(), pairs yielded, releases
    ilog,     \* history of the outstanding Iter: pairs at iter(), pairs yielded
    op,       \* name of the last operation that returned
    ret,      \* what it returned
    net,      \* history: vacant inserts minus successful removes/pops since clear/drain
    hist,     \* history: the pairs inserted since the container was last empty
    present   \* history: keys inserted and not since removed/popped/cleared/drained

vars == <<heap, alloc, map, head, free, cap, drain, it, ub, dropped, dlog, ilog,
          op, ret, net, hist, present>>

(* ---- struct Node ---- *)
Node(k, v, n, p) == [key |-> k, value |-> v, next |-> n, prev |-> p]

(* Box::new(Node { uninit, uninit, null, null }) *)
BlankNode == Node(Uninit, Uninit, NULL, NULL)

(* The container's fields and the heap as one value, so that the helper    *)
(* functions of lib.rs compose as they do in the source.                   *)
(* `rel` counts, per address, the Box::from_raw releases made so far by    *)
(* the operation being carried out.                                        *)
NoRelease == [n \in Nodes |-> 0]

(* `bad` records that the operation being carried out dereferenced or     *)
(* released an address that is not allocated, or read a key or value that  *)
(* is not initialized.                                                     *)
Cur == [heap |-> heap, alloc |-> alloc, map |-> map, head |-> head, free |-> free,
        rel |-> NoRelease, bad |-> FALSE]
CurP == [heap |-> heap', alloc |-> alloc', map |-> map', head |-> head', free |-> free',
         rel |-> NoRelease, bad |-> FALSE]

Commit(c) ==
    /\ heap' = c.heap
    /\ alloc' = c.alloc
    /\ map' = c.map
    /\ head' = c.head
    /\ free' = c.free
    /\ ub' = (ub \/ c.bad)

(* a dereference of the pointers in S *)
touch(c, S) == [c EXCEPT !.bad = @ \/ ~(S \subseteq c.alloc)]

(* a read (copy, move-out or drop) of the key and the value of node p *)
read_kv(c, p) ==
    [c EXCEPT !.bad = @ \/ p \notin c.alloc
                        \/ c.heap[p].key = Uninit \/ c.heap[p].value = Uninit]

(* Return values: Option<V>, Option<(K, V)>, (), bool, and the panic of    *)
(* expect("no entry found for key").                                       *)
None == [tag |-> "None", k |-> 0, v |-> 0]
Some(v) == [tag |-> "Some", k |-> 0, v |-> v]
SomeKV(k, v) == [tag |-> "SomeKV", k |-> k, v |-> v]
Unit == [tag |-> "Unit", k |-> 0, v |-> 0]
Bool(b) == [tag |-> IF b THEN "true" ELSE "false", k |-> 0, v |-> 0]
Panic == [tag |-> "Panic", k |-> 0, v |-> 0]

(* ---- the allocator ---- *)
(* Box::into_raw(Box::new(..)): the address handed out is the lowest one   *)
(* not allocated (a first-fit allocator; addresses are reused).            *)
Unallocated(c) == Nodes \ c.alloc
Box_new(c) == CHOOSE n \in Unallocated(c) : \A m \in Unallocated(c) : n <= m

(* Box::from_raw(p) dropped: the storage goes back to the allocator.       *)
Box_from_raw(c, p) ==
    [c EXCEPT !.alloc = @ \ {p}, !.heap = [@ EXCEPT ![p] = BlankNode],
              !.rel = [@ EXCEPT ![p] = @ + 1],
              !.bad = @ \/ p \notin c.alloc]

(* ---- hash_key and the hashbrown table ---- *)
hash_key(k) == k % HashRange

(* Variant: the lookup trusts the hash and never compares the keys.        *)
from_hash_hash_only(c, hash, k) ==
    LET m == {e \in c.map : e.hash = hash}
    IN IF m = {} THEN NULL ELSE (CHOOSE e \in m : TRUE).node

(* hashbrown from_hash(hash, is_match): the entries stored under `hash`    *)
(* whose node's key is the key looked for.                                 *)
from_hash(c, hash, k) ==
    LET m == {e \in c.map : e.hash = hash /\ c.heap[e.node].key = k}
    IN IF m = {} THEN NULL ELSE (CHOOSE e \in m : TRUE).node

from_key(c, k) == from_hash(c, hash_key(k), k)

len(c) == Cardinality(c.map)

is_empty(c) == len(c) = 0

(* ---- list primitives ---- *)
ensure_guard_node(c) ==
    IF c.head = NULL
    THEN LET g == Box_new(c)
         IN [c EXCEPT !.alloc = @ \cup {g},
                      !.heap = [@ EXCEPT ![g] = Node(Uninit, Uninit, g, g)],
                      !.head = g]
    ELSE c

attach_node(c, node, to_attach) ==
    LET h1 == [c.heap EXCEPT ![to_attach].next = c.heap[node].next]
        h2 == [h1 EXCEPT ![to_attach].prev = node]
        h3 == [h2 EXCEPT ![node].next = to_attach]
        h4 == [h3 EXCEPT ![h3[to_attach].next].prev = to_attach]
    IN [touch(c, {node, to_attach, c.heap[node].next}) EXCEPT !.heap = h4]

(* Variant: only the predecessor is relinked. *)
detach_node_one_way(c, node) ==
    [c EXCEPT !.heap = [@ EXCEPT ![c.heap[node].prev].next = c.heap[node].next]]

detach_node(c, node) ==
    LET h1 == [c.heap EXCEPT ![c.heap[node].prev].next = c.heap[node].next]
        h2 == [h1 EXCEPT ![h1[node].next].prev = h1[node].prev]
    IN [touch(c, {node, c.heap[node].prev, c.heap[node].next}) EXCEPT !.heap = h2]

push_free(c, node) ==
    [touch(c, {node}) EXCEPT !.heap = [@ EXCEPT ![node].next = c.free],
                             !.free = node]

(* Variant: the free list is never used. *)
pop_free_node_none(c) == NULL

(* pop_free: the node returned, and the container afterwards *)
pop_free_node(c) == c.free

(* Variant: the node handed out stays at the head of the free list. *)
pop_free_keeps_node(c) == c

pop_free(c) ==
    IF c.free # NULL
    THEN [touch(c, {c.free}) EXCEPT !.free = c.heap[c.free].next]
    ELSE c

(* allocate_node: the node returned, and the container afterwards *)
allocate_node_ptr(c) ==
    IF pop_free_node(c) = NULL THEN Box_new(c) ELSE pop_free_node(c)

allocate_node(c) ==
    IF pop_free_node(c) = NULL
    THEN LET n == Box_new(c)
         IN [c EXCEPT !.alloc = @ \cup {n}, !.heap = [@ EXCEPT ![n] = BlankNode]]
    ELSE pop_free(c)

(* drop_nodes(head): the loop `while cur != head`, one iteration per call. *)
(* The key and value are read out (dropped) and the Box is released.       *)
RECURSIVE drop_nodes_loop(_, _, _, _)
drop_nodes_loop(c, cur, hd, fuel) ==
    IF cur = hd THEN c
    ELSE IF cur = NULL \/ fuel = 0 THEN [c EXCEPT !.bad = TRUE]
    ELSE drop_nodes_loop(Box_from_raw(read_kv(c, cur), cur), c.heap[cur].next,
                         hd, fuel - 1)

(* variant: the walk releases the guard too *)
drop_nodes_frees_guard(c, hd) ==
    Box_from_raw(drop_nodes_loop(touch(c, {hd}), c.heap[hd].next, hd, MaxNodes), hd)

drop_nodes(c, hd) == drop_nodes_loop(touch(c, {hd}), c.heap[hd].next, hd, MaxNodes)

RECURSIVE drop_free_nodes_loop(_, _, _)
drop_free_nodes_loop(c, fr, fuel) ==
    IF fr = NULL THEN c
    ELSE IF fuel = 0 THEN [c EXCEPT !.bad = TRUE]
    ELSE drop_free_nodes_loop(Box_from_raw(c, fr), c.heap[fr].next, fuel - 1)

drop_free_nodes(c, fr) == drop_free_nodes_loop(c, fr, MaxNodes)

(* Variant: the node goes to the free list without being detached.        *)
remove_node_no_detach(c, node) ==
    LET c2 == push_free(c, node)
    IN [c2 EXCEPT !.heap = [@ EXCEPT ![node].key = Uninit, ![node].value = Uninit,
                                     ![node].prev = NULL]]

(* Variant: the node is released instead of going to the free list. *)
remove_node_releases(c, node) == Box_from_raw(detach_node(c, node), node)

(* remove_node: detach, push on the free list, move key and value out.     *)
(* The node keeps no valid key or value, and its prev is "assumed invalid" *)
(* on the free list (lib.rs:21-22): the three are recorded as Uninit/NULL. *)
remove_node_kv(c, node) == SomeKV(c.heap[node].key, c.heap[node].value)

remove_node(c, node) ==
    LET c1 == detach_node(c, node)
        c2 == read_kv(push_free(c1, node), node)
    IN [c2 EXCEPT !.heap = [@ EXCEPT ![node].key = Uninit, ![node].value = Uninit,
                                     ![node].prev = NULL]]

(* ---- observers ---- *)
Bogus == <<0, 0>>

(* Variant: Iter::next advances along next instead of prev. *)
RECURSIVE Iter_next_all_along_next(_, _, _, _)
Iter_next_all_along_next(c, h, t, fuel) ==
    IF h = t THEN <<>>
    ELSE IF h = NULL \/ fuel = 0 THEN <<Bogus>>
    ELSE <<(<<c.heap[h].key, c.heap[h].value>>)>>
             \o Iter_next_all_along_next(c, c.heap[h].next, t, fuel - 1)

(* Iter::next repeated until it returns None, from the state iter() builds *)
(* (head = guard.prev, tail = guard); each step yields the node at `head`  *)
(* and moves `head` to its prev.  A walk that leaves the allocated nodes   *)
(* or does not terminate yields the item Bogus.                            *)
RECURSIVE Iter_next_all(_, _, _, _)
Iter_next_all(c, h, t, fuel) ==
    IF h = t THEN <<>>
    ELSE IF h = NULL \/ fuel = 0 THEN <<Bogus>>
    ELSE <<(<<c.heap[h].key, c.heap[h].value>>)>>
             \o Iter_next_all(c, c.heap[h].prev, t, fuel - 1)

iter(c) ==
    Iter_next_all(c, IF c.head = NULL THEN NULL ELSE c.heap[c.head].prev,
                  c.head, MaxNodes)

(* Iter::next_back repeated until None: tail moves to its next and yields  *)
RECURSIVE Iter_next_back_all(_, _, _, _)
Iter_next_back_all(c, h, t, fuel) ==
    IF h = t THEN <<>>
    ELSE IF t = NULL \/ fuel = 0 THEN <<Bogus>>
    ELSE LET t1 == c.heap[t].next
         IN <<(<<c.heap[t1].key, c.heap[t1].value>>)>>
                \o Iter_next_back_all(c, h, t1, fuel - 1)

iter_rev(c) ==
    Iter_next_back_all(c, IF c.head = NULL THEN NULL ELSE c.heap[c.head].prev,
                       c.head, MaxNodes)

front(c) ==
    IF is_empty(c) THEN None
    ELSE LET f == c.heap[c.head].prev IN SomeKV(c.heap[f].key, c.heap[f].value)

back(c) ==
    IF is_empty(c) THEN None
    ELSE LET b == c.heap[c.head].next IN SomeKV(c.heap[b].key, c.heap[b].value)

get(c, k) ==
    LET n == from_key(c, k) IN IF n = NULL THEN None ELSE Some(c.heap[n].value)

get_key_value(c, k) ==
    LET n == from_key(c, k)
    IN IF n = NULL THEN None ELSE SomeKV(c.heap[n].key, c.heap[n].value)

contains_key(c, k) == get(c, k) # None

(* ---- raw entry operations ---- *)
(* Variant: the entry is left where it is. *)
to_back_in_place(c, node) == c

to_back(c, node) ==
    LET c1 == detach_node(c, node) IN attach_node(c1, c1.head, node)

(* Variant: the node is attached after the guard node, as to_back does. *)
to_front_after_guard(c, node) ==
    LET c1 == detach_node(c, node) IN attach_node(c1, c1.head, node)

(* Variant: the neighbour of the guard node is read before the detach. *)
to_front_ref_before_detach(c, node) ==
    LET ref == c.heap[c.head].prev
        c1 == detach_node(c, node)
    IN attach_node(c1, ref, node)

to_front(c, node) ==
    LET c1 == touch(detach_node(c, node), {c.head})
    IN attach_node(c1, c1.heap[c1.head].prev, node)

(* RawOccupiedEntryMut::insert: mem::replace of the value *)
occupied_insert(c, node, v) ==
    [read_kv(c, node) EXCEPT !.heap = [@ EXCEPT ![node].value = v]]

(* Variant: the node is unlinked but stays in the index. *)
remove_entry_keeps_index(c, node) == remove_node(c, node)

(* RawOccupiedEntryMut::remove_entry: hashbrown remove_entry, remove_node *)
remove_entry(c, node) ==
    remove_node([c EXCEPT !.map = {e \in @ : e.node # node}], node)

(* Variant: the node is linked but never recorded in the index. *)
insert_with_hasher_no_index(c, hash, k, v) ==
    LET c1 == ensure_guard_node(c)
        new_node == allocate_node_ptr(c1)
        c2 == allocate_node(c1)
        c3 == [c2 EXCEPT !.heap = [@ EXCEPT ![new_node].key = k, ![new_node].value = v]]
    IN attach_node(c3, c3.head, new_node)

(* RawVacantEntryMut::insert_with_hasher *)
insert_with_hasher(c, hash, k, v) ==
    LET c1 == ensure_guard_node(c)
        new_node == allocate_node_ptr(c1)
        c2 == touch(allocate_node(c1), {new_node})
        c3 == [c2 EXCEPT !.heap = [@ EXCEPT ![new_node].key = k, ![new_node].value = v]]
        c4 == attach_node(c3, c3.head, new_node)
    IN [c4 EXCEPT !.map = @ \cup {[hash |-> hash, node |-> new_node]}]

(* Fresh nodes a vacant insert takes from the allocator; the model's heap  *)
(* has MaxNodes addresses, and an insert that needs more is not taken.     *)
FreshNeeded(c) ==
    (IF c.head = NULL THEN 1 ELSE 0) + (IF c.free = NULL THEN 1 ELSE 0)

CanInsert(c) == Cardinality(Unallocated(c)) >= FreshNeeded(c)

(* ---- capacity of the hashbrown table ---- *)
(* HashMap::insert of a new key: a table that is full grows (reallocates)  *)
(* to some larger capacity, any other table keeps its allocation.          *)
table_insert(c) ==
    IF len(c) < cap THEN {cap} ELSE (len(c) + 1)..MaxCap

(* Variant: clearing the table gives its allocation back. *)
table_clear_frees == Cardinality({})

(* HashMap::clear: the entries go, the allocation is kept for reuse *)
table_clear == cap

(* HashMap::shrink_to_fit: the capacity drops, not below the length *)
table_shrink_to_fit(c) == len(c)..cap

(* HashMap::reserve(additional): room for `additional` more entries *)
table_reserve(c, additional) ==
    IF cap - len(c) >= additional THEN {cap} ELSE (len(c) + additional)..MaxCap

(* ---- history variables ---- *)
FreshHist == [ok |-> TRUE, seq |-> <<>>]
DirtyHist == [ok |-> FALSE, seq |-> <<>>]
HistKeys == {hist.seq[i][1] : i \in DOMAIN hist.seq}

HistInsert(k, v) ==
    IF hist.ok /\ k \notin HistKeys
    THEN [ok |-> TRUE, seq |-> Append(hist.seq, <<k, v>>)]
    ELSE DirtyHist

HistOther(c) == IF is_empty(c) THEN FreshHist ELSE DirtyHist

(* ---- what is outstanding besides the container ---- *)
NoDrain == [active |-> FALSE, head |-> NULL, tail |-> NULL, remaining |-> 0]
NoIter == [active |-> FALSE, head |-> NULL, tail |-> NULL, remaining |-> 0]
NotDropped == [done |-> FALSE, rel |-> NoRelease]
NoDrainLog == [items |-> <<>>, ins |-> [ok |-> TRUE, seq |-> <<>>], fwd |-> <<>>,
               bwd |-> <<>>, owned |-> {}, rel |-> NoRelease]
NoIterLog == [fwd |-> <<>>, bwd |-> <<>>]

(* A method of the container leaves the Drain and the Iter alone; the      *)
(* history of a Drain that is gone is forgotten.                           *)
MapFrame ==
    /\ dlog' = IF drain.active THEN dlog ELSE NoDrainLog
    /\ UNCHANGED <<drain, it, dropped, ilog>>

(* What a method of the Drain leaves alone. *)
DrainFrame == UNCHANGED <<map, head, free, cap, it, dropped, ilog, net, hist, present>>

Lookup(name, r) ==
    /\ op' = name
    /\ ret' = r
    /\ UNCHANGED <<heap, alloc, map, head, free, cap, ub, net, hist, present>>
    /\ MapFrame

(* ---- LinkedHashMap operations ---- *)
Insert(k, v) ==
    LET c == Cur
        n == from_key(c, k)
    IN /\ n # NULL \/ CanInsert(c)
       /\ IF n # NULL
          THEN /\ Commit(occupied_insert(to_back(c, n), n, v))
               /\ ret' = Some(c.heap[n].value)
               /\ UNCHANGED cap
          ELSE /\ Commit(insert_with_hasher(c, hash_key(k), k, v))
               /\ ret' = None
               /\ cap' \in table_insert(c)
       /\ op' = "insert"
       /\ net' = IF k \in present THEN net ELSE net + 1
       /\ present' = present \cup {k}
       /\ hist' = HistInsert(k, v)
       /\ MapFrame

Remove(k) ==
    LET c == Cur
        n == from_key(c, k)
    IN /\ IF n # NULL
          THEN /\ Commit(remove_entry(c, n))
               /\ ret' = Some(c.heap[n].value)
               /\ net' = net - 1
               /\ hist' = HistOther(remove_entry(c, n))
          ELSE /\ UNCHANGED <<heap, alloc, map, head, free, ub, net, hist>>
               /\ ret' = None
       /\ op' = "remove"
       /\ present' = present \ {k}
       /\ UNCHANGED cap
       /\ MapFrame

(* pop_front / pop_back: `boundary` is the node read from the guard *)
pop(name, c, boundary) ==
    LET k == c.heap[boundary].key
        n == from_hash(c, hash_key(k), k)
    IN /\ IF n # NULL
          THEN /\ Commit(remove_entry(c, n))
               /\ ret' = remove_node_kv(c, n)
               /\ net' = net - 1
               /\ hist' = HistOther(remove_entry(c, n))
               /\ present' = present \ {c.heap[n].key}
          ELSE /\ UNCHANGED <<heap, alloc, map, head, free, ub, net, hist, present>>
               /\ ret' = None
       /\ op' = name
       /\ UNCHANGED cap
       /\ MapFrame

(* Variant: pop_front takes the node at guard.next. *)
PopFront_takes_next ==
    LET c == Cur
    IN IF is_empty(c) THEN Lookup("pop_front", None)
       ELSE pop("pop_front", c, c.heap[c.head].next)

PopFront ==
    LET c == Cur
    IN IF is_empty(c) THEN Lookup("pop_front", None)
       ELSE pop("pop_front", c, c.heap[c.head].prev)

PopBack ==
    LET c == Cur
    IN IF is_empty(c) THEN Lookup("pop_back", None)
       ELSE pop("pop_back", c, c.heap[c.head].next)

(* Variant: the guard node is released with the live nodes. *)
clear_drops_guard(c) ==
    LET c1 == [c EXCEPT !.map = {}]
    IN IF c1.head # NULL
       THEN [Box_from_raw(drop_nodes(c1, c1.head), c1.head) EXCEPT !.head = NULL]
       ELSE c1

(* the container as clear() leaves it *)
clear(c) ==
    LET c1 == [c EXCEPT !.map = {}]
    IN IF c1.head # NULL
       THEN LET d == drop_nodes(c1, c1.head)
            IN [d EXCEPT !.heap = [@ EXCEPT ![d.head].prev = d.head,
                                            ![d.head].next = d.head]]
       ELSE c1

Clear ==
    LET c == Cur
    IN /\ Commit(clear(c))
       /\ op' = "clear"
       /\ ret' = Unit
       /\ net' = 0
       /\ present' = {}
       /\ hist' = FreshHist
       /\ cap' = table_clear
       /\ MapFrame

(* Variant: the free list is left as it is. *)
shrink_to_fit_keeps_free(c) == c

(* the container as shrink_to_fit() leaves it *)
shrink_to_fit(c) == [drop_free_nodes(c, c.free) EXCEPT !.free = NULL]

ShrinkToFit ==
    LET c == Cur
    IN /\ Commit(shrink_to_fit(c))
       /\ cap' \in table_shrink_to_fit(c)
       /\ op' = "shrink_to_fit"
       /\ ret' = Unit
       /\ UNCHANGED <<net, hist, present>>
       /\ MapFrame

(* drain(): the boundary nodes are read, the guard node and the free list  *)
(* are released and the index is cleared; the live nodes pass to the Drain.*)

(* Variant: the free list is kept. *)
(* variant: drain() keeps the guard, still linked to the drained nodes *)
drain_container_keeps_guard(c) ==
    LET c2 == [drop_free_nodes(c, c.free) EXCEPT !.free = NULL]
    IN [c2 EXCEPT !.map = {}]

drain_container_keeps_free(c) ==
    LET c1 == IF c.head # NULL
              THEN [Box_from_raw(c, c.head) EXCEPT !.head = NULL]
              ELSE c
    IN [c1 EXCEPT !.map = {}]

(* the container as drain() leaves it *)
drain_container(c) ==
    LET c1 == IF c.head # NULL
              THEN [Box_from_raw(c, c.head) EXCEPT !.head = NULL]
              ELSE c
        c2 == [drop_free_nodes(c1, c1.free) EXCEPT !.free = NULL]
    IN [c2 EXCEPT !.map = {}]

DrainCall ==
    LET c == Cur
        dhead == IF c.head # NULL THEN c.heap[c.head].prev ELSE NULL
        dtail == IF c.head # NULL THEN c.heap[c.head].next ELSE NULL
    IN /\ Commit(drain_container(c))
       /\ drain' = [active |-> TRUE, head |-> dhead, tail |-> dtail,
                    remaining |-> len(c)]
       /\ dlog' = [items |-> iter(c), ins |-> hist, fwd |-> <<>>, bwd |-> <<>>,
                   owned |-> {e.node : e \in c.map}, rel |-> NoRelease]
       /\ op' = "drain"
       /\ ret' = Unit
       /\ net' = 0
       /\ present' = {}
       /\ hist' = FreshHist
       /\ cap' = table_clear
       /\ UNCHANGED <<it, dropped, ilog>>

(* The heap as a method of the Drain finds it, with the releases the      *)
(* Drain has made so far.                                                  *)
DrainCur == [Cur EXCEPT !.rel = dlog.rel]

(* Drain::next *)
DrainNext ==
    /\ drain.active
    /\ IF drain.remaining = 0
       THEN /\ ret' = None
            /\ UNCHANGED <<heap, alloc, ub, drain, dlog>>
       ELSE LET prev == heap[drain.head].prev
                c1 == Box_from_raw(read_kv(DrainCur, drain.head), drain.head)
            IN /\ ret' = SomeKV(heap[drain.head].key, heap[drain.head].value)
               /\ heap' = c1.heap
               /\ alloc' = c1.alloc
               /\ ub' = (ub \/ c1.bad)
               /\ drain' = [drain EXCEPT !.remaining = @ - 1, !.head = prev]
               /\ dlog' = [dlog EXCEPT !.fwd = Append(@, <<heap[drain.head].key,
                                                           heap[drain.head].value>>),
                                       !.rel = c1.rel]
    /\ op' = "drain_next"
    /\ DrainFrame

(* Drain::next_back *)
DrainNextBack ==
    /\ drain.active
    /\ IF drain.remaining = 0
       THEN /\ ret' = None
            /\ UNCHANGED <<heap, alloc, ub, drain, dlog>>
       ELSE LET next == heap[drain.tail].next
                c1 == Box_from_raw(read_kv(DrainCur, drain.tail), drain.tail)
            IN /\ ret' = SomeKV(heap[drain.tail].key, heap[drain.tail].value)
               /\ heap' = c1.heap
               /\ alloc' = c1.alloc
               /\ ub' = (ub \/ c1.bad)
               /\ drain' = [drain EXCEPT !.remaining = @ - 1, !.tail = next]
               /\ dlog' = [dlog EXCEPT !.bwd = Append(@, <<heap[drain.tail].key,
                                                           heap[drain.tail].value>>),
                                       !.rel = c1.rel]
    /\ op' = "drain_next_back"
    /\ DrainFrame

(* Variant: the loop stops one node short. *)
RECURSIVE Drain_drop_loop_one_short(_, _, _)
Drain_drop_loop_one_short(c, tail, remaining) ==
    IF remaining <= 1 THEN c
    ELSE Drain_drop_loop_one_short(Box_from_raw(c, tail), c.heap[tail].next,
                                   remaining - 1)

(* Drop for Drain: `for _ in 0..self.remaining`, from tail along next *)
RECURSIVE Drain_drop_loop(_, _, _)
Drain_drop_loop(c, tail, remaining) ==
    IF remaining = 0 THEN c
    ELSE IF tail \notin Nodes THEN [c EXCEPT !.bad = TRUE]
    ELSE Drain_drop_loop(Box_from_raw(read_kv(c, tail), tail), c.heap[tail].next,
                         remaining - 1)

DrainDrop ==
    LET c1 == Drain_drop_loop(DrainCur, drain.tail, drain.remaining)
    IN /\ drain.active
       /\ heap' = c1.heap
       /\ alloc' = c1.alloc
       /\ ub' = (ub \/ c1.bad)
       /\ drain' = NoDrain
       /\ dlog' = [dlog EXCEPT !.rel = c1.rel]
       /\ op' = "drain_drop"
       /\ ret' = Unit
       /\ DrainFrame

(* drain() while a Drain is outstanding, its own Drain dropped at once *)
DrainDropped ==
    LET c == Cur
        dtail == IF c.head # NULL THEN c.heap[c.head].next ELSE NULL
        c1 == drain_container(c)
    IN /\ drain.active
       /\ Commit(Drain_drop_loop(c1, dtail, len(c)))
       /\ op' = "drain_dropped"
       /\ ret' = Unit
       /\ net' = 0
       /\ present' = {}
       /\ hist' = FreshHist
       /\ cap' = table_clear
       /\ MapFrame

(* ---- reserve ---- *)
(* Variant: reserve allocates the guard node when there is none. *)
Reserve_ensures_guard(additional) ==
    /\ len(Cur) + additional <= MaxCap
    /\ Cardinality(Unallocated(Cur)) >= 1
    /\ cap' \in table_reserve(Cur, additional)
    /\ Commit(ensure_guard_node(Cur))
    /\ op' = "reserve"
    /\ ret' = Unit
    /\ UNCHANGED <<net, hist, present>>
    /\ MapFrame

Reserve(additional) ==
    /\ len(Cur) + additional <= MaxCap
    /\ cap' \in table_reserve(Cur, additional)
    /\ op' = "reserve"
    /\ ret' = Unit
    /\ UNCHANGED <<heap, alloc, map, head, free, ub, net, hist, present>>
    /\ MapFrame

(* ---- Iter: iter(), Iter::next, Iter::next_back, and the end of the      *)
(* borrow when the Iter is dropped.  `remaining` is kept as an integer so  *)
(* that a decrement below zero shows.                                      *)
IterFrame ==
    UNCHANGED <<heap, alloc, map, head, free, cap, drain, dropped, dlog,
                net, hist, present>>

(* the nodes iter() dereferences *)
Iter_new_reads(c) == IF c.head = NULL THEN {} ELSE {c.head}

(* Variant: the Iter starts at guard.next. *)
Iter_new_at_next(c) ==
    [active |-> TRUE,
     head |-> IF c.head = NULL THEN NULL ELSE c.heap[c.head].next,
     tail |-> c.head,
     remaining |-> len(c)]

(* the Iter that iter() builds *)
Iter_new(c) ==
    [active |-> TRUE,
     head |-> IF c.head = NULL THEN NULL ELSE c.heap[c.head].prev,
     tail |-> c.head,
     remaining |-> len(c)]

IterCall ==
    /\ ~it.active
    /\ it' = Iter_new(Cur)
    /\ ub' = (ub \/ touch(Cur, Iter_new_reads(Cur)).bad)
    /\ ilog' = NoIterLog
    /\ op' = "iter"
    /\ ret' = Unit
    /\ IterFrame

IterNext ==
    /\ it.active
    /\ IF it.head = it.tail
       THEN /\ ret' = None
            /\ UNCHANGED <<it, ilog, ub>>
       ELSE /\ ret' = SomeKV(heap[it.head].key, heap[it.head].value)
            /\ ub' = (ub \/ read_kv(Cur, it.head).bad)
            /\ it' = [it EXCEPT !.remaining = @ - 1, !.head = heap[it.head].prev]
            /\ ilog' = [ilog EXCEPT !.fwd = Append(@, <<heap[it.head].key,
                                                        heap[it.head].value>>)]
    /\ op' = "iter_next"
    /\ IterFrame

(* Variant: next_back yields the node `tail` is at, without moving first. *)
Iter_next_back_node_stale(i) == i.tail

(* Iter::next_back: tail moves to its next, and that node is yielded *)
Iter_next_back_node(i) == heap[i.tail].next

IterNextBack ==
    /\ it.active
    /\ IF it.head = it.tail
       THEN /\ ret' = None
            /\ UNCHANGED <<it, ilog, ub>>
       ELSE LET tail == Iter_next_back_node(it)
            IN /\ ret' = SomeKV(heap[tail].key, heap[tail].value)
               /\ ub' = (ub \/ read_kv(touch(Cur, {it.tail}), tail).bad)
               /\ it' = [it EXCEPT !.remaining = @ - 1, !.tail = tail]
               /\ ilog' = [ilog EXCEPT !.bwd = Append(@, <<heap[tail].key,
                                                           heap[tail].value>>)]
    /\ op' = "iter_next_back"
    /\ IterFrame

IterEnd ==
    /\ it.active
    /\ it' = NoIter
    /\ ilog' = NoIterLog
    /\ op' = "iter_end"
    /\ ret' = Unit
    /\ UNCHANGED ub
    /\ IterFrame

(* ---- Drop for LinkedHashMap: the live nodes and the guard node, then    *)
(* the free list; the fields of the container are gone with it.            *)
(* Variant: the free list is left allocated. *)
drop_leaks_free_list(c) ==
    IF c.head # NULL
    THEN Box_from_raw(drop_nodes(c, c.head), c.head)
    ELSE c

(* the heap as Drop::drop leaves it *)
drop(c) ==
    LET c1 == IF c.head # NULL
              THEN Box_from_raw(drop_nodes(c, c.head), c.head)
              ELSE c
    IN drop_free_nodes(c1, c1.free)

DropMap ==
    LET c == Cur
        c2 == drop(c)
    IN /\ ~dropped.done
       /\ heap' = c2.heap
       /\ alloc' = c2.alloc
       /\ map' = {}
       /\ head' = NULL
       /\ free' = NULL
       /\ cap' = 0
       /\ dropped' = [done |-> TRUE, rel |-> c2.rel]
       /\ ub' = (ub \/ c2.bad)
       /\ op' = "drop"
       /\ ret' = Unit
       /\ UNCHANGED <<drain, it, dlog, ilog, net, hist, present>>

(* ---- lookups ---- *)
Get(k) == Lookup("get", get(Cur, k))

GetKeyValue(k) == Lookup("get_key_value", get_key_value(Cur, k))

ContainsKey(k) == Lookup("contains_key", Bool(contains_key(Cur, k)))

Front == Lookup("front", front(Cur))

Back == Lookup("back", back(Cur))

(* Variant: the Option is handed back without expect(). *)
IndexOp_no_expect(k) == Lookup("index", get(Cur, k))

(* Index::index: get(index).expect("no entry found for key") *)
IndexOp(k) ==
    Lookup("index", IF get(Cur, k) = None THEN Panic ELSE get(Cur, k))

(* Variant: get_mut moves the entry it finds to the back. *)
get_mut_to_back(name, k, v) ==
    LET c == Cur
        n == from_key(c, k)
    IN IF n = NULL
       THEN Lookup(name, None)
       ELSE /\ Commit(occupied_insert(to_back(c, n), n, v))
            /\ op' = name
            /\ ret' = Some(c.heap[n].value)
            /\ hist' = DirtyHist
            /\ UNCHANGED <<cap, net, present>>
            /\ MapFrame

(* get_mut, and the caller's store through the &mut V it returns *)
get_mut(name, k, v) ==
    LET c == Cur
        n == from_key(c, k)
    IN IF n = NULL
       THEN Lookup(name, None)
       ELSE /\ Commit(occupied_insert(c, n, v))
            /\ op' = name
            /\ ret' = Some(c.heap[n].value)
            /\ hist' = DirtyHist
            /\ UNCHANGED <<cap, net, present>>
            /\ MapFrame

GetMut(k, v) == get_mut("get_mut", k, v)

(* IndexMut::index_mut: get_mut(index).expect("no entry found for key") *)
IndexMutOp(k, v) ==
    IF from_key(Cur, k) = NULL
    THEN Lookup("index_mut", Panic)
    ELSE get_mut("index_mut", k, v)

(* ---- entry API: entry(k) / raw_entry_mut().from_key(k), then a method   *)
(* of the occupied or of the vacant entry it returns.  The vacant entry    *)
(* is given the key it was looked up with, as VacantEntry::insert does.    *)
Reorder(name, c) ==
    /\ Commit(c)
    /\ op' = name
    /\ ret' = Unit
    /\ hist' = DirtyHist
    /\ UNCHANGED <<cap, net, present>>
    /\ MapFrame

OccupiedToBack(k) ==
    LET n == from_key(Cur, k)
    IN /\ n # NULL
       /\ Reorder("to_back", to_back(Cur, n))

OccupiedToFront(k) ==
    LET n == from_key(Cur, k)
    IN /\ n # NULL
       /\ Reorder("to_front", to_front(Cur, n))

OccupiedRemoveEntry(k) ==
    LET c == Cur
        n == from_key(c, k)
    IN /\ n # NULL
       /\ Commit(remove_entry(c, n))
       /\ op' = "remove_entry"
       /\ ret' = remove_node_kv(c, n)
       /\ net' = net - 1
       /\ present' = present \ {k}
       /\ hist' = HistOther(remove_entry(c, n))
       /\ UNCHANGED cap
       /\ MapFrame

VacantInsert(k, v) ==
    LET c == Cur
    IN /\ from_key(c, k) = NULL
       /\ CanInsert(c)
       /\ Commit(insert_with_hasher(c, hash_key(k), k, v))
       /\ cap' \in table_insert(c)
       /\ op' = "vacant_insert"
       /\ ret' = Some(v)
       /\ net' = IF k \in present THEN net ELSE net + 1
       /\ present' = present \cup {k}
       /\ hist' = HistInsert(k, v)
       /\ MapFrame

(* ---- Entry / OccupiedEntry: entry(k), then a method of the entry ---- *)
(* RawOccupiedEntryMut::insert_key / mem::replace through key_mut() *)
occupied_insert_key(c, node, k) ==
    [read_kv(c, node) EXCEPT !.heap = [@ EXCEPT ![node].key = k]]

(* Variant: the value goes into a new node linked at the back. *)
occupied_entry_insert_new_node(c, node, v) ==
    insert_with_hasher(c, hash_key(c.heap[node].key), c.heap[node].key, v)

(* OccupiedEntry::insert: raw_entry.to_back(), raw_entry.insert(value) *)
occupied_entry_insert(c, node, v) == occupied_insert(to_back(c, node), node, v)

OccupiedEntryInsert(k, v) ==
    LET c == Cur
        n == from_key(c, k)
    IN /\ n # NULL
       /\ Commit(occupied_entry_insert(c, n, v))
       /\ op' = "entry_insert"
       /\ ret' = Some(c.heap[n].value)
       /\ hist' = DirtyHist
       /\ UNCHANGED <<cap, net, present>>
       /\ MapFrame

(* OccupiedEntry::replace_entry: the entry's own key and the value are     *)
(* stored in the node, the old pair is returned.                           *)
OccupiedReplaceEntry(k, v) ==
    LET c == Cur
        n == from_key(c, k)
    IN /\ n # NULL
       /\ Commit(occupied_insert(occupied_insert_key(c, n, k), n, v))
       /\ op' = "replace_entry"
       /\ ret' = SomeKV(c.heap[n].key, c.heap[n].value)
       /\ hist' = DirtyHist
       /\ UNCHANGED <<cap, net, present>>
       /\ MapFrame

(* OccupiedEntry::replace_key: the old key is returned *)
OccupiedReplaceKey(k) ==
    LET c == Cur
        n == from_key(c, k)
    IN /\ n # NULL
       /\ Commit(occupied_insert_key(c, n, k))
       /\ op' = "replace_key"
       /\ ret' = SomeKV(c.heap[n].key, c.heap[n].value)
       /\ UNCHANGED <<cap, net, hist, present>>
       /\ MapFrame

(* Variant: or_insert on a present key stores the default, as insert does. *)
EntryOrInsert_overwrites(k, v) ==
    LET c == Cur
        n == from_key(c, k)
    IN /\ n # NULL \/ CanInsert(c)
       /\ IF n # NULL
          THEN /\ Commit(occupied_entry_insert(c, n, v))
               /\ ret' = Some(v)
               /\ hist' = DirtyHist
               /\ UNCHANGED <<cap, net, present>>
          ELSE /\ Commit(insert_with_hasher(c, hash_key(k), k, v))
               /\ ret' = Some(v)
               /\ cap' \in table_insert(c)
               /\ net' = IF k \in present THEN net ELSE net + 1
               /\ present' = present \cup {k}
               /\ hist' = HistInsert(k, v)
       /\ op' = "or_insert"
       /\ MapFrame

(* Entry::or_insert: into_mut() of the occupied entry, insert(default) of  *)
(* the vacant one; what is returned is the value the &mut V points at.     *)
EntryOrInsert(k, v) ==
    LET c == Cur
        n == from_key(c, k)
    IN /\ n # NULL \/ CanInsert(c)
       /\ IF n # NULL
          THEN /\ ret' = Some(c.heap[n].value)
               /\ UNCHANGED <<heap, alloc, map, head, free, cap, ub, net, hist, present>>
          ELSE /\ Commit(insert_with_hasher(c, hash_key(k), k, v))
               /\ ret' = Some(v)
               /\ cap' \in table_insert(c)
               /\ net' = IF k \in present THEN net ELSE net + 1
               /\ present' = present \cup {k}
               /\ hist' = HistInsert(k, v)
       /\ op' = "or_insert"
       /\ MapFrame

Init ==
    /\ heap = [n \in Nodes |-> BlankNode]
    /\ alloc = {}
    /\ map = {}
    /\ head = NULL
    /\ free = NULL
    /\ cap = 0
    /\ ub = FALSE
    /\ drain = NoDrain
    /\ it = NoIter
    /\ dropped = NotDropped
    /\ dlog = NoDrainLog
    /\ ilog = NoIterLog
    /\ op = "new"
    /\ ret = Unit
    /\ net = 0
    /\ hist = [ok |-> TRUE, seq |-> <<>>]
    /\ present = {}

(* ======================================================================= *)
(* Properties                                                              *)
(* ======================================================================= *)

(* The nodes met by following `next` from the guard node until the guard   *)
(* node is met again, in the order met; NULL marks a walk that left the    *)
(* list or did not come back within MaxNodes steps.                        *)
RECURSIVE WalkNext(_, _, _)
WalkNext(c, cur, fuel) ==
    IF cur = c.head THEN <<>>
    ELSE IF cur = NULL \/ fuel = 0 THEN <<NULL>>
    ELSE <<cur>> \o WalkNext(c, c.heap[cur].next, fuel - 1)

RECURSIVE WalkPrev(_, _, _)
WalkPrev(c, cur, fuel) ==
    IF cur = c.head THEN <<>>
    ELSE IF cur = NULL \/ fuel = 0 THEN <<NULL>>
    ELSE <<cur>> \o WalkPrev(c, c.heap[cur].prev, fuel - 1)

ListNext(c) == IF c.head = NULL THEN <<>> ELSE WalkNext(c, c.heap[c.head].next, MaxNodes)
ListPrev(c) == IF c.head = NULL THEN <<>> ELSE WalkPrev(c, c.heap[c.head].prev, MaxNodes)

Range(s) == {s[i] : i \in DOMAIN s}
Reverse(s) == [i \in DOMAIN s |-> s[Len(s) + 1 - i]]
IsInjective(s) == \A i, j \in DOMAIN s : s[i] = s[j] => i = j
IndexNodes(c) == {e.node : e \in c.map}
KeysOf(s) == {s[i][1] : i \in DOMAIN s}
PosOf(s, k) == CHOOSE i \in DOMAIN s : s[i][1] = k
Without(s, i) == [j \in 1..(Len(s) - 1) |-> IF j < i THEN s[j] ELSE s[j + 1]]
Container == <<heap, alloc, map, head, free>>

(* C1: in every state between operations, the nodes recorded in the hash   *)
(* index are exactly the non-sentinel nodes reachable from the sentinel,   *)
(* each with one index entry, and every live key is the key of exactly one *)
(* of them.                                                                *)
C1_IndexMatchesList ==
    LET c == Cur
        reach == ListNext(c)
    IN /\ NULL \notin Range(reach)
       /\ IsInjective(reach)
       /\ IndexNodes(c) = Range(reach)
       /\ Cardinality(c.map) = Cardinality(IndexNodes(c))
       /\ \A k \in present :
              Cardinality({n \in Range(reach) : c.heap[n].key = k}) = 1
       /\ \A n \in Range(reach) : c.heap[n].key \in present

C1_Witness ==
    /\ op = "remove_entry"
    /\ Cardinality(map) = 2
    /\ free # NULL

(* C2: whenever the sentinel exists, next and prev are inverse on the      *)
(* sentinel and on every live node, and following next (or prev) from the  *)
(* sentinel visits every live node exactly once and returns to it; with no *)
(* live node the sentinel is linked to itself.                             *)
C2_CircularList ==
    LET c == Cur
        live == IndexNodes(c)
    IN head # NULL =>
        /\ \A n \in live \cup {head} :
              /\ heap[n].next # NULL /\ heap[n].prev # NULL
              /\ heap[heap[n].next].prev = n
              /\ heap[heap[n].prev].next = n
        /\ IsInjective(ListNext(c)) /\ Range(ListNext(c)) = live
        /\ IsInjective(ListPrev(c)) /\ Range(ListPrev(c)) = live
        /\ ListPrev(c) = Reverse(ListNext(c))
        /\ live = {} => heap[head].next = head /\ heap[head].prev = head

C2_Witness ==
    /\ op = "to_front"
    /\ Cardinality(map) = 3
    /\ heap[head].prev # heap[head].next

(* C3: len() is the number of inserts of absent keys minus the number of   *)
(* successful removes and pops since the last clear or drain, and a full   *)
(* iteration yields exactly len() pairs.                                   *)
C3_LenCounts ==
    /\ len(Cur) = net
    /\ Len(iter(Cur)) = len(Cur)
    /\ Bogus \notin Range(iter(Cur))
    /\ Len(iter_rev(Cur)) = len(Cur)

C3_Witness ==
    /\ op = "pop_back"
    /\ ret.tag = "SomeKV"
    /\ net = 2
    /\ Len(iter(Cur)) = 2

InsertPost(k, v) ==
    LET before == iter(Cur)
        after == iter(CurP)
    IN /\ back(CurP) = SomeKV(k, v)
       /\ IF k \notin present
          THEN /\ ret' = None
               /\ after = Append(before, <<k, v>>)
          ELSE /\ k \in KeysOf(before)
               /\ ret' = Some(before[PosOf(before, k)][2])
               /\ after = Append(Without(before, PosOf(before, k)), <<k, v>>)
               /\ len(CurP) = len(Cur)

(* C4: insert(k, v) leaves (k, v) at the back; for an absent key it        *)
(* returns None and appends the pair to the order; for a present key it    *)
(* returns the previous value, moves the entry to the back with the new    *)
(* value and keeps len() and the order of the other entries.               *)
C4_InsertNewest ==
    [][\A k \in Keys, v \in Values :
          (op' = "insert" /\ Insert(k, v)) => InsertPost(k, v)]_vars

C4_Witness ==
    /\ op = "insert"
    /\ ret = Some(1)
    /\ Len(iter(Cur)) = 3
    /\ back(Cur) = SomeKV(1, 2)
    /\ iter(Cur)[1][1] = 3

(* C5: after inserting pairs with pairwise distinct keys into an empty     *)
(* container, iter() yields exactly those pairs in insertion order, front()*)
(* is the first pair inserted and back() the last.                         *)
C5_RoundTrip ==
    hist.ok =>
        /\ iter(Cur) = hist.seq
        /\ hist.seq # <<>> =>
              /\ front(Cur) = SomeKV(hist.seq[1][1], hist.seq[1][2])
              /\ back(Cur) = SomeKV(hist.seq[Len(hist.seq)][1], hist.seq[Len(hist.seq)][2])

C5_Witness ==
    /\ hist.ok
    /\ op = "insert"
    /\ Len(hist.seq) = 3
    /\ hist.seq[1][1] = 2
    /\ iter(Cur) = hist.seq

PopFrontPost ==
    LET before == iter(Cur)
        after == iter(CurP)
    IN /\ (ret' = None) <=> (present = {})
       /\ present # {} =>
              /\ before # <<>>
              /\ ret' = front(Cur)
              /\ ret' = SomeKV(before[1][1], before[1][2])
              /\ after = Tail(before)
              /\ front(CurP) = IF Len(before) > 1
                               THEN SomeKV(before[2][1], before[2][2])
                               ELSE None

PopBackPost ==
    LET before == iter(Cur)
        after == iter(CurP)
        n == Len(before)
    IN /\ (ret' = None) <=> (present = {})
       /\ present # {} =>
              /\ before # <<>>
              /\ ret' = back(Cur)
              /\ ret' = SomeKV(before[n][1], before[n][2])
              /\ after = SubSeq(before, 1, n - 1)
              /\ back(CurP) = IF n > 1
                              THEN SomeKV(before[n - 1][1], before[n - 1][2])
                              ELSE None

(* C6: pop_front returns None exactly when the container is empty;         *)
(* otherwise it returns the pair front() reported and removes it, the next *)
(* oldest pair becomes the front and the other pairs keep their order.     *)
(* pop_back is the same at the newest end.                                 *)
C6_PopEnds ==
    [][/\ (op' = "pop_front" /\ PopFront) => PopFrontPost
       /\ (op' = "pop_back" /\ PopBack) => PopBackPost]_vars

C6_Witness ==
    /\ op = "pop_front"
    /\ ret = SomeKV(2, 2)
    /\ Len(iter(Cur)) = 2
    /\ front(Cur) = SomeKV(3, 1)

ToFrontPost(k) ==
    LET before == iter(Cur)
        after == iter(CurP)
        i == PosOf(before, k)
    IN /\ k \in KeysOf(before)
       /\ front(CurP) = SomeKV(k, before[i][2])
       /\ after = <<before[i]>> \o Without(before, i)
       /\ len(CurP) = len(Cur)

ToBackPost(k) ==
    LET before == iter(Cur)
        after == iter(CurP)
        i == PosOf(before, k)
    IN /\ k \in KeysOf(before)
       /\ back(CurP) = SomeKV(k, before[i][2])
       /\ after = Append(Without(before, i), before[i])
       /\ len(CurP) = len(Cur)

(* C7: to_front makes the entry the oldest and to_back makes it the newest;*)
(* its key and value, len() and the order of the other entries stay.       *)
C7_Reorder ==
    [][\A k \in Keys :
          /\ (op' = "to_front" /\ OccupiedToFront(k)) => ToFrontPost(k)
          /\ (op' = "to_back" /\ OccupiedToBack(k)) => ToBackPost(k)]_vars

C7_Witness ==
    /\ op = "to_front"
    /\ Len(iter(Cur)) = 3
    /\ front(Cur) = SomeKV(2, 2)
    /\ hist = DirtyHist
    /\ back(Cur).k = 3

RemovePost(k) ==
    LET before == iter(Cur)
        after == iter(CurP)
        i == PosOf(before, k)
        node == from_key(Cur, k)
    IN /\ k \in KeysOf(before)
       /\ ret' = Some(before[i][2])
       /\ ~contains_key(CurP, k)
       /\ len(CurP) = len(Cur) - 1
       /\ after = Without(before, i)
       /\ node # NULL
       /\ node \notin Range(ListNext(CurP))
       /\ node \notin Range(ListPrev(CurP))
       /\ node \notin IndexNodes(CurP)

(* C8: remove(key) of a present key returns its value; afterwards          *)
(* contains_key(key) is false, len() is one less, the other entries keep   *)
(* value and order, and the node is neither in the list nor in the index.  *)
C8_Remove ==
    [][\A k \in Keys :
          (op' = "remove" /\ k \in present /\ Remove(k)) => RemovePost(k)]_vars

C8_Witness ==
    /\ op = "remove"
    /\ ret = Some(2)
    /\ Len(iter(Cur)) = 2
    /\ ~contains_key(Cur, 2)
    /\ free # NULL

(* C9: get, get_key_value, get_mut and remove of an absent key, and front, *)
(* back, pop_front and pop_back of an empty container, return None and     *)
(* change nothing: guard node, index, list and free list stay as they were.*)
C9_AbsentIsNone ==
    [][/\ \A k \in Keys :
             (/\ k \notin present
              /\ op' \in {"get", "get_key_value", "get_mut", "remove"}
              /\ \/ Get(k)
                 \/ GetKeyValue(k)
                 \/ \E v \in Values : GetMut(k, v)
                 \/ Remove(k))
             => (ret' = None /\ UNCHANGED Container)
       /\ (/\ present = {}
           /\ op' \in {"front", "back", "pop_front", "pop_back"}
           /\ (Front \/ Back \/ PopFront \/ PopBack))
          => (ret' = None /\ UNCHANGED Container)]_vars

C9_Witness ==
    /\ op = "pop_back"
    /\ ret = None
    /\ head # NULL
    /\ free # NULL
    /\ map = {}

KeyOrder(c) == [i \in DOMAIN iter(c) |-> iter(c)[i][1]]

IndexPost(k) ==
    /\ (ret' = Panic) <=> (k \notin present)
    /\ k \in present =>
          /\ k \in KeysOf(iter(Cur))
          /\ ret' = Some(iter(Cur)[PosOf(iter(Cur), k)][2])
          /\ KeyOrder(CurP) = KeyOrder(Cur)
          /\ map' = map

(* C10: indexed access panics exactly when the key is absent; for a        *)
(* present key it yields the key's value and changes neither the order of  *)
(* the keys nor the membership.                                            *)
C10_IndexPanics ==
    [][\A k \in Keys :
          /\ (op' = "index" /\ IndexOp(k)) => (IndexPost(k) /\ UNCHANGED Container)
          /\ \A v \in Values :
                (op' = "index_mut" /\ IndexMutOp(k, v)) =>
                    /\ IndexPost(k)
                    /\ k \in present => get(CurP, k) = Some(v)]_vars

C10_PanicWitness ==
    /\ op = "index"
    /\ ret = Panic
    /\ Cardinality(map) = 2
    /\ free # NULL

(* No Drain is outstanding: the Drain that drain() returned is consumed or *)
(* dropped before the map is used again, as in                             *)
(* `for (k, v) in map.drain() { .. }`.                                     *)
IsPrefix(s, t) == Len(s) <= Len(t) /\ s = SubSeq(t, 1, Len(s))

(* C11: drain() hands out the pairs that were live at the call, oldest to  *)
(* newest, when the Drain is consumed with next() alone; and right after   *)
(* the call the container is as a new one: no guard node, no free list,    *)
(* an empty index, len() = 0, nothing at the front or the back, and an     *)
(* insert into it gives the one-entry container an insert into a new one   *)
(* gives.                                                                  *)
C11_DrainYieldsAll ==
    /\ op = "drain" =>
          /\ head = NULL /\ free = NULL /\ map = {}
          /\ len(Cur) = 0 /\ front(Cur) = None /\ back(Cur) = None
          /\ iter(Cur) = <<>>
          /\ \A k \in Keys, v \in Values :
                CanInsert(Cur) =>
                  LET c == insert_with_hasher(Cur, hash_key(k), k, v)
                  IN /\ iter(c) = <<(<<k, v>>)>>
                     /\ len(c) = 1
                     /\ get(c, k) = Some(v)
    /\ drain.active =>
          /\ dlog.ins.ok => dlog.items = dlog.ins.seq
          /\ Len(dlog.fwd) + Len(dlog.bwd) + drain.remaining = Len(dlog.items)
          /\ dlog.bwd = <<>> => IsPrefix(dlog.fwd, dlog.items)
          /\ (dlog.bwd = <<>> /\ op = "drain_next" /\ ret = None)
                => dlog.fwd = dlog.items

C11_Witness ==
    /\ drain.active
    /\ op = "drain_next" /\ ret = None
    /\ dlog.ins.ok /\ Len(dlog.ins.seq) = 3
    /\ dlog.bwd = <<>>
    /\ dlog.fwd = dlog.ins.seq

(* C12: once the guard node exists no operation but drain() removes it:   *)
(* every other step leaves `head` the same allocated node, clear() leaves  *)
(* it linked to itself with no live node, drain() leaves no guard node,    *)
(* and an insert into a container without one creates one.                 *)
C12_GuardStays ==
    [][/\ (head # NULL /\ op' # "drain") => (head' = head /\ head' \in alloc')
       /\ (head # NULL /\ op' = "clear" /\ Clear) =>
             /\ heap'[head'].next = head'
             /\ heap'[head'].prev = head'
             /\ map' = {}
             /\ ListNext(CurP) = <<>>
       /\ (op' = "drain" /\ DrainCall) => head' = NULL
       /\ (head = NULL /\ op' \in {"insert", "vacant_insert"}) =>
             /\ head' \in alloc' \ alloc
             /\ heap'[head'].key = Uninit]_vars

C12_Witness ==
    /\ op = "pop_back"
    /\ ret # None
    /\ map = {}
    /\ head # NULL /\ head \in alloc
    /\ heap[head].next = head /\ heap[head].prev = head

C14_DrainDropReleases ==
    /\ drain.active =>
          /\ \A n \in Nodes :
                /\ dlog.rel[n] <= 1
                /\ dlog.rel[n] = 1 => (n \in dlog.owned /\ n \notin alloc)
          /\ Cardinality({n \in Nodes : dlog.rel[n] = 1})
                = Len(dlog.fwd) + Len(dlog.bwd)
    /\ op = "drain_drop" =>
          /\ Cardinality(dlog.owned) = Len(dlog.items)
          /\ \A n \in Nodes : dlog.rel[n] = IF n \in dlog.owned THEN 1 ELSE 0
          /\ dlog.owned \cap alloc = {}

C14_Witness ==
    /\ op = "drain_drop"
    /\ Len(dlog.items) = 3
    /\ Len(dlog.fwd) = 1
    /\ Len(dlog.bwd) = 1
    /\ \A n \in dlog.owned : dlog.rel[n] = 1

(* The nodes met by following `next` from `free` until NULL. *)
RECURSIVE WalkFree(_, _, _)
WalkFree(c, cur, fuel) ==
    IF cur = NULL THEN <<>>
    ELSE IF fuel = 0 THEN <<NULL>>
    ELSE <<cur>> \o WalkFree(c, c.heap[cur].next, fuel - 1)

FreeList(c) == WalkFree(c, c.free, MaxNodes)

(* the guard node, the live nodes and the nodes of the free list *)
OwnedNodes(c) ==
    (IF c.head = NULL THEN {} ELSE {c.head})
        \cup IndexNodes(c) \cup Range(FreeList(c))

(* C15: destroying the container releases every node it still holds, the  *)
(* guard node, the live nodes and the nodes of the free list, each exactly *)
(* once, and releases nothing else; no node stays allocated.               *)
C15_DropReleasesAll ==
    [][(op' = "drop" /\ DropMap) =>
          /\ \A n \in Nodes :
                dropped'.rel[n] = IF n \in OwnedNodes(Cur) THEN 1 ELSE 0
          /\ alloc = OwnedNodes(Cur)
          /\ alloc' = {}]_vars

C15_Witness ==
    /\ dropped.done
    /\ op = "drop"
    /\ Cardinality(present) = 2
    /\ Cardinality({n \in Nodes : dropped.rel[n] = 1}) = 4
    /\ alloc = {}

(* the pairs of the live entries *)
Entries(c) == {<<c.heap[n].key, c.heap[n].value>> : n \in IndexNodes(c)}

(* C16: an Iter over n entries, under every interleaving of next() and     *)
(* next_back(): the items yielded are live entries with distinct keys,     *)
(* those from next() are a prefix of the order and those from next_back()  *)
(* a suffix of it taken from its end, the two never overlapping; the       *)
(* remaining count is n minus the items yielded and never negative; None   *)
(* is returned only when n items were yielded, and then by both ends, with *)
(* every entry yielded once.                                               *)
C16_IterBothEnds ==
    it.active =>
      LET n == len(Cur)
          order == iter(Cur)
          yielded == ilog.fwd \o Reverse(ilog.bwd)
      IN /\ it.remaining = n - Len(yielded)
         /\ it.remaining >= 0
         /\ IsInjective(KeyOrder(Cur)) /\ Len(order) = n
         /\ hist.ok => order = hist.seq
         /\ IsPrefix(ilog.fwd, order)
         /\ Reverse(ilog.bwd) = SubSeq(order, n - Len(ilog.bwd) + 1, n)
         /\ Range(yielded) \subseteq Entries(Cur)
         /\ (op \in {"iter_next", "iter_next_back"} /\ ret = None)
               => Len(yielded) = n
         /\ Len(yielded) = n =>
               /\ it.head = it.tail
               /\ yielded = order
               /\ Range(yielded) = Entries(Cur)

C16_Witness ==
    /\ it.active
    /\ op = "iter_next" /\ ret = None
    /\ hist.ok /\ Len(hist.seq) = 3
    /\ Len(ilog.fwd) = 1
    /\ Len(ilog.bwd) = 2
    /\ ilog.fwd \o Reverse(ilog.bwd) = hist.seq

ReadOps ==
    {"get", "get_key_value", "contains_key", "get_mut", "front", "back",
     "index", "index_mut", "iter", "iter_next", "iter_next_back", "iter_end"}

(* C17: a lookup never reorders.  get, get_key_value, contains_key,        *)
(* get_mut, front, back, indexed access and every step of an iteration     *)
(* leave the order of the keys, the entries of the index, the free list,   *)
(* the guard node, the links of the list and the allocated nodes as they   *)
(* were.                                                                   *)
C17_LookupsKeepOrder ==
    [][op' \in ReadOps =>
          /\ KeyOrder(CurP) = KeyOrder(Cur)
          /\ ListNext(CurP) = ListNext(Cur)
          /\ ListPrev(CurP) = ListPrev(Cur)
          /\ map' = map
          /\ free' = free
          /\ FreeList(CurP) = FreeList(Cur)
          /\ head' = head
          /\ alloc' = alloc]_vars

C17_Witness ==
    /\ op = "get_mut"
    /\ ret = Some(1)
    /\ iter(Cur) = <<(<<1, 2>>), <<2, 1>>, <<3, 1>>>>

(* C18: no node of the free list is in the index or linked in the live    *)
(* list, none is the guard node, and no node is on the free list twice;    *)
(* the free list ends at NULL and its nodes are allocated.                 *)
C18_FreeListDisjoint ==
    LET fl == FreeList(Cur)
    IN /\ IsInjective(fl)
       /\ NULL \notin Range(fl)
       /\ Range(fl) \subseteq alloc
       /\ Range(fl) \cap IndexNodes(Cur) = {}
       /\ Range(fl) \cap Range(ListNext(Cur)) = {}
       /\ Range(fl) \cap Range(ListPrev(Cur)) = {}
       /\ head \notin Range(fl)

C18_Witness ==
    /\ Len(FreeList(Cur)) = 2
    /\ len(Cur) = 1
    /\ op = "insert"

(* C19: shrink_to_fit() releases every node of the free list and leaves    *)
(* the free list empty; the live entries, their keys and values, their     *)
(* order, len(), the index and the guard node are as before, and no other  *)
(* node is released or changed.                                            *)
C19_ShrinkToFit ==
    [][(op' = "shrink_to_fit" /\ ShrinkToFit) =>
          /\ free' = NULL
          /\ alloc' = alloc \ Range(FreeList(Cur))
          /\ \A n \in alloc' : heap'[n] = heap[n]
          /\ iter(CurP) = iter(Cur)
          /\ iter_rev(CurP) = iter_rev(Cur)
          /\ len(CurP) = len(Cur)
          /\ map' = map
          /\ head' = head]_vars

C19_Witness ==
    /\ op = "shrink_to_fit"
    /\ free = NULL
    /\ len(Cur) = 2
    /\ alloc = {1, 3, 4}

(* C20 as stated: forward iteration, iter() consumed with next(), starts   *)
(* at the newest entry and goes toward the oldest, and next_back() starts  *)
(* from the oldest entry.                                                  *)
C20_ForwardNewestFirst ==
    (it.active /\ hist.ok) =>
      /\ IsPrefix(ilog.fwd, Reverse(hist.seq))
      /\ IsPrefix(ilog.bwd, hist.seq)

(* C20 amended: forward iteration, iter() consumed with next(), starts at  *)
(* the oldest entry, the one front() returns, and goes toward the newest   *)
(* along the prev links until it meets the guard node; next_back() starts  *)
(* from the newest entry, the one back() returns, and goes toward the      *)
(* oldest.                                                                 *)
C20_ForwardOldestFirst ==
    it.active =>
      /\ hist.ok => /\ IsPrefix(ilog.fwd, hist.seq)
                    /\ IsPrefix(ilog.bwd, Reverse(hist.seq))
      /\ ilog.fwd # <<>> =>
            /\ front(Cur) = SomeKV(ilog.fwd[1][1], ilog.fwd[1][2])
            /\ heap[head].prev \in IndexNodes(Cur)
            /\ ilog.fwd[1] = <<heap[heap[head].prev].key, heap[heap[head].prev].value>>
      /\ ilog.bwd # <<>> =>
            /\ back(Cur) = SomeKV(ilog.bwd[1][1], ilog.bwd[1][2])
            /\ ilog.bwd[1] = <<heap[heap[head].next].key, heap[heap[head].next].value>>
      /\ (ilog.bwd = <<>> /\ op = "iter_next" /\ ret = None) =>
            /\ it.head = head
            /\ ilog.fwd = [i \in DOMAIN ListPrev(Cur) |->
                             <<heap[ListPrev(Cur)[i]].key, heap[ListPrev(Cur)[i]].value>>]

C20_Witness ==
    /\ it.active
    /\ op = "iter_next" /\ ret = None
    /\ hist.ok /\ Len(hist.seq) = 3
    /\ ilog.bwd = <<>>
    /\ ilog.fwd = hist.seq
    /\ front(Cur) = SomeKV(hist.seq[1][1], hist.seq[1][2])

(* C21 as stated: a capacity reservation takes the container out of the   *)
(* state without a guard node.                                             *)
C21_ReserveCreatesGuard ==
    [][op' = "reserve" => head' # NULL]_vars

(* C21 amended: the guard node is created by the first insert of an absent *)
(* key and by nothing else; reserve() changes only the capacity of the     *)
(* index and leaves a container without a guard node without one; when     *)
(* the guard node exists, ensure_guard_node changes nothing.               *)
C21_GuardOnFirstInsert ==
    [][/\ op' = "reserve" =>
             /\ UNCHANGED <<heap, alloc, map, head, free>>
             /\ cap' >= cap
       /\ (head = NULL /\ op' \in {"insert", "vacant_insert"}) =>
             /\ head' \in alloc' \ alloc
             /\ heap'[head'].key = Uninit /\ heap'[head'].value = Uninit
             /\ len(CurP) = 1
       /\ (head = NULL /\ op' \notin {"insert", "vacant_insert"}) => head' = NULL
       /\ head # NULL => ensure_guard_node(Cur) = Cur]_vars

C21_Witness ==
    /\ op = "reserve"
    /\ cap = MaxCap
    /\ head = NULL
    /\ alloc = {}

RemoveOps == {"remove", "pop_front", "pop_back", "remove_entry"}
DrainOps == {"drain_next", "drain_next_back", "drain_drop"}

(* C22 as stated: every node that stops being live is placed on the free   *)
(* list, and storage is released by shrink_to_fit alone (the container is  *)
(* not destroyed in this specification).                                   *)
C22_OnlyShrinkReleases ==
    [][/\ (IndexNodes(Cur) \ IndexNodes(CurP)) \subseteq Range(FreeList(CurP))
       /\ op' # "shrink_to_fit" => alloc \subseteq alloc']_vars

(* C22 amended: a node that stops being live by remove, pop_front,         *)
(* pop_back or remove_entry is put at the head of the free list and stays  *)
(* allocated; clear() releases the live nodes and leaves the free list as  *)
(* it is; drain() releases the guard node and the free list and leaves the *)
(* live nodes allocated for the Drain, which releases only those; and      *)
(* shrink_to_fit releases the free list.  No other step of a live          *)
(* container releases storage.                                             *)
C22_NodeLifeCycle ==
    [][LET gone == IndexNodes(Cur) \ IndexNodes(CurP)
       IN /\ op' \in RemoveOps =>
                /\ alloc' = alloc
                /\ Cardinality(gone) <= 1
                /\ \A n \in gone : FreeList(CurP) = <<n>> \o FreeList(Cur)
                /\ gone = {} => FreeList(CurP) = FreeList(Cur)
          /\ op' = "clear" =>
                /\ alloc' = alloc \ IndexNodes(Cur)
                /\ FreeList(CurP) = FreeList(Cur)
          /\ op' = "drain" =>
                /\ alloc' = alloc \ ((IF head = NULL THEN {} ELSE {head})
                                        \cup Range(FreeList(Cur)))
                /\ IndexNodes(Cur) \subseteq alloc'
                /\ dlog'.owned = IndexNodes(Cur)
          /\ op' \in DrainOps =>
                /\ alloc' \subseteq alloc
                /\ (alloc \ alloc') \subseteq dlog.owned
          /\ op' = "shrink_to_fit" => alloc' = alloc \ Range(FreeList(Cur))
          /\ op' \notin ({"clear", "drain", "shrink_to_fit"} \cup DrainOps)
                => alloc \subseteq alloc']_vars

C22_Witness ==
    /\ op = "clear"
    /\ alloc = {1, 3}
    /\ head = 1
    /\ free = 3

InsertOps == {"insert", "vacant_insert", "or_insert"}
OccupiedOps == {"to_front", "to_back", "entry_insert", "replace_entry", "replace_key"}

(* C23: a node enters the index exactly when a key absent from it is       *)
(* inserted, and then exactly one.  Inserting a present key, to_front,     *)
(* to_back, OccupiedEntry::insert, replace_entry and replace_key keep the  *)
(* entries of the index (the same nodes under the same hashes), the nodes  *)
(* of the list, the keys, the allocation, the guard node and the free      *)
(* list; at most one node changes its value.                               *)
C23_NoNodeChurn ==
    [][LET new == IndexNodes(CurP) \ IndexNodes(Cur)
           absent == op' \in InsertOps /\ KeysOf(iter(CurP)) # KeysOf(iter(Cur))
           kept == op' \in OccupiedOps \/ (op' \in InsertOps /\ ~absent)
       IN /\ new # {} => absent
          /\ absent =>
                /\ Cardinality(new) = 1
                /\ IndexNodes(Cur) \subseteq IndexNodes(CurP)
                /\ len(CurP) = len(Cur) + 1
          /\ kept =>
                /\ map' = map
                /\ alloc' = alloc
                /\ head' = head
                /\ free' = free
                /\ FreeList(CurP) = FreeList(Cur)
                /\ Range(ListNext(CurP)) = Range(ListNext(Cur))
                /\ \A n \in IndexNodes(Cur) : heap'[n].key = heap[n].key
                /\ Cardinality({n \in IndexNodes(Cur) :
                                   heap'[n].value # heap[n].value}) <= 1]_vars

C23_Witness ==
    /\ op = "insert"
    /\ ret = Some(1)
    /\ len(Cur) = 2
    /\ free # NULL
    /\ back(Cur) = SomeKV(1, 2)
    /\ alloc = {1, 2, 3, 4}

(* remove(k) for each key of `ks` in turn, every key being present *)
RECURSIVE RemoveKeys(_, _)
RemoveKeys(c, ks) ==
    IF ks = <<>> THEN c
    ELSE RemoveKeys(remove_entry(c, from_key(c, Head(ks))), Tail(ks))

(* insert(k, v) for each key of `ks` in turn, every key being absent *)
RECURSIVE InsertKeys(_, _, _)
InsertKeys(c, ks, v) ==
    IF ks = <<>> THEN c
    ELSE InsertKeys(insert_with_hasher(c, hash_key(Head(ks)), Head(ks), v),
                    Tail(ks), v)

(* the sequences of n distinct keys *)
DistinctKeys(n) == {s \in [1..n -> Keys] : IsInjective(s)}

(* from this state, k removes of present keys and then k inserts of absent *)
(* keys leave the allocated nodes, the free list and len() as they are     *)
RemovesThenInserts ==
    (~drain.active /\ op \notin ReadOps) =>
      \A k \in 1..len(Cur) :
        \A rs \in DistinctKeys(k), is \in DistinctKeys(k), v \in Values :
          LET c1 == RemoveKeys(Cur, rs)
              c2 == InsertKeys(c1, is, v)
          IN (/\ Range(rs) \subseteq KeysOf(iter(Cur))
              /\ Range(is) \cap KeysOf(iter(c1)) = {})
             => /\ c1.alloc = alloc
                /\ Len(FreeList(c1)) = Len(FreeList(Cur)) + k
                /\ c2.alloc = alloc
                /\ FreeList(c2) = FreeList(Cur)
                /\ len(c2) = len(Cur)

InsertTakesFree ==
    (op' \in {"insert", "vacant_insert"} /\ len(CurP) = len(Cur) + 1) =>
      LET new == IndexNodes(CurP) \ IndexNodes(Cur)
      IN IF free # NULL
         THEN /\ alloc' = alloc
              /\ new = {free}
              /\ FreeList(CurP) = Tail(FreeList(Cur))
         ELSE /\ free' = NULL
              /\ new \cap alloc = {}
              /\ alloc' = alloc \cup new \cup (IF head = NULL THEN {head'} ELSE {})
              /\ Cardinality(alloc') = Cardinality(alloc) + 1
                                         + (IF head = NULL THEN 1 ELSE 0)

(* C24: an insert of an absent key takes the node at the head of the free  *)
(* list when there is one, the free list losing that node and nothing      *)
(* being allocated; it allocates one node (and the guard node if there is  *)
(* none) only when the free list is empty.  Hence from any state, k        *)
(* removes of present keys followed by k inserts of absent keys leave the  *)
(* set of allocated nodes as it was.                                       *)
C24_FreeListReuse == [][InsertTakesFree]_vars /\ []RemovesThenInserts

C24_Witness ==
    /\ op = "insert"
    /\ ret = None
    /\ len(Cur) = 2
    /\ Len(FreeList(Cur)) = 1
    /\ alloc = {1, 2, 3, 4}

(* C25: to_back on the newest entry, to_front on the oldest entry, and     *)
(* either move in a container of one entry, leave the order and every      *)
(* link as they were, the list circular and the same in both directions;   *)
(* the node a moved node is attached after is never that node itself: it   *)
(* is the guard node (to_back) or the guard node's prev read after the     *)
(* detach (to_front).                                                      *)
C25_ReorderEdgeCases ==
    [][\A k \in Keys :
         LET n == from_key(Cur, k)
             same == /\ heap' = heap
                     /\ KeyOrder(CurP) = KeyOrder(Cur)
                     /\ ListPrev(CurP) = Reverse(ListNext(CurP))
                     /\ Len(ListNext(CurP)) = len(Cur)
                     /\ NULL \notin Range(ListNext(CurP))
         IN /\ (op' = "to_back" /\ OccupiedToBack(k)) =>
                  /\ head # n
                  /\ back(Cur) = SomeKV(k, heap[n].value) => same
                  /\ len(Cur) = 1 => same
            /\ (op' = "to_front" /\ OccupiedToFront(k)) =>
                  /\ detach_node(Cur, n).heap[head].prev # n
                  /\ front(Cur) = SomeKV(k, heap[n].value) => same
                  /\ len(Cur) = 1 => same]_vars

C25_Witness ==
    /\ op = "to_front"
    /\ len(Cur) = 1
    /\ heap[head].next = heap[head].prev
    /\ heap[head].next # head
    /\ heap[heap[head].next].next = head
    /\ heap[heap[head].next].prev = head

(* C26: entry(k).or_insert(v) on an absent key does what insert(k, v)     *)
(* does: a new entry (k, v) at the back, len() one more.  On a present key *)
(* it returns the value stored and changes nothing, neither the value nor  *)
(* the order, where insert moves the entry to the back.                    *)
(* OccupiedEntry::insert(v) returns the old value, stores v and moves the  *)
(* entry to the back.                                                      *)
C26_EntryProtocol ==
    [][\A k \in Keys, v \in Values :
         LET n == from_key(Cur, k)
             moved == Without(iter(Cur), PosOf(iter(Cur), k)) \o <<(<<k, v>>)>>
         IN /\ (op' = "or_insert" /\ EntryOrInsert(k, v)) =>
                  IF n = NULL
                  THEN /\ CurP = insert_with_hasher(Cur, hash_key(k), k, v)
                       /\ iter(CurP) = Append(iter(Cur), <<k, v>>)
                       /\ len(CurP) = len(Cur) + 1
                       /\ back(CurP) = SomeKV(k, v)
                       /\ ret' = Some(v)
                  ELSE /\ ret' = Some(heap[n].value)
                       /\ UNCHANGED Container
                       /\ iter(CurP) = iter(Cur)
            /\ (op' = "insert" /\ Insert(k, v)) =>
                  IF n = NULL
                  THEN CurP = insert_with_hasher(Cur, hash_key(k), k, v)
                  ELSE iter(CurP) = moved
            /\ (op' = "entry_insert" /\ OccupiedEntryInsert(k, v)) =>
                  /\ ret' = Some(heap[n].value)
                  /\ iter(CurP) = moved
                  /\ back(CurP) = SomeKV(k, v)
                  /\ len(CurP) = len(Cur)]_vars

C26_Witness ==
    /\ op = "or_insert"
    /\ ret = Some(1)
    /\ iter(Cur) = <<(<<1, 1>>), <<2, 2>>>>

(***************************************************************************)
(* C27  Memory safety over every sequence of operations.                   *)
(***************************************************************************)
RECURSIVE WalkDrain(_, _)
WalkDrain(p, n) ==
    IF n = 0 \/ p \notin Nodes THEN {} ELSE {p} \cup WalkDrain(heap[p].prev, n - 1)

(* the nodes an outstanding Drain still has to yield *)
DrainHeld == IF drain.active THEN WalkDrain(drain.head, drain.remaining) ELSE {}

Initialized(p) == heap[p].key # Uninit /\ heap[p].value # Uninit

GuardSet == IF head = NULL THEN {} ELSE {head}

(* C27: no operation ever dereferences or releases an address that is not  *)
(* allocated, or reads, moves out or drops a key or value that is not      *)
(* initialized (so nothing is moved out or dropped twice, and no link into *)
(* a released node is followed); an allocated node holds an initialized    *)
(* key and value exactly when it is live in the container or still held by *)
(* an outstanding Drain, so the guard and the free-list nodes never do;    *)
(* every link of the guard and of a live node leads to the guard or a live *)
(* node; released storage is never written; and no operation returns an    *)
(* uninitialized key or value.                                             *)
C27_MemorySafe ==
    /\ ~ub
    /\ \A p \in Nodes \ alloc : heap[p] = BlankNode
    /\ IndexNodes(Cur) \cup GuardSet \cup Range(FreeList(Cur)) \cup DrainHeld
           \subseteq alloc
    /\ \A p \in alloc : (heap[p].key = Uninit) <=> (heap[p].value = Uninit)
    /\ \A p \in alloc : Initialized(p) <=> p \in IndexNodes(Cur) \cup DrainHeld
    /\ \A p \in GuardSet \cup Range(FreeList(Cur)) : ~Initialized(p)
    /\ \A p \in IndexNodes(Cur) \cup GuardSet :
          {heap[p].prev, heap[p].next} \subseteq IndexNodes(Cur) \cup GuardSet
    /\ Cardinality(DrainHeld) = drain.remaining
    /\ DrainHeld \cap OwnedNodes(Cur) = {}
    /\ ret.tag = "Some" => ret.v # Uninit
    /\ ret.tag = "SomeKV" => ret.k # Uninit /\ ret.v # Uninit

(* a Drain of two entries, whose guard drain() released, has yielded and   *)
(* released the first and still holds the second, the only storage left    *)
C27_Witness ==
    /\ op = "drain_next"
    /\ drain.active
    /\ drain.remaining = 1
    /\ Len(dlog.items) = 2
    /\ Len(dlog.fwd) = 1
    /\ head = NULL
    /\ alloc = DrainHeld
    /\ Cardinality(alloc) = 1
    /\ ~ub

(***************************************************************************)
(* C28  An outstanding Drain and the container share no node.              *)
(***************************************************************************)
RECURSIVE DrainSeq(_, _)
DrainSeq(p, n) ==
    IF n = 0 \/ p \notin Nodes THEN <<>>
    ELSE <<(<<heap[p].key, heap[p].value>>)>> \o DrainSeq(heap[p].prev, n - 1)

DrainStepOps == {"drain_next", "drain_next_back", "drain_drop"}

(* what the Drain has still to yield, by the log of what it has yielded *)
DrainRest == SubSeq(dlog.items, Len(dlog.fwd) + 1, Len(dlog.items) - Len(dlog.bwd))

(* a step of the container leaves the Drain and its nodes alone *)
ContainerStepApart ==
    (op' \notin DrainStepOps) =>
        /\ \A p \in DrainHeld : p \in alloc' /\ heap'[p] = heap[p]
        /\ drain.active => (drain' = drain /\ dlog' = dlog)
        /\ op' \in {"drain", "drain_dropped"} =>
              /\ head' = NULL /\ free' = NULL /\ map' = {}
              /\ alloc' = DrainHeld'

(* a step of the Drain leaves the container and its nodes alone, releases  *)
(* only nodes of its own, and yields the next pair of its end              *)
DrainStepApart ==
    (op' \in DrainStepOps) =>
        /\ UNCHANGED <<map, head, free, cap>>
        /\ \A p \in OwnedNodes(Cur) : p \in alloc' /\ heap'[p] = heap[p]
        /\ alloc' \subseteq alloc
        /\ (alloc \ alloc') \subseteq DrainHeld
        /\ iter(CurP) = iter(Cur)
        /\ (op' = "drain_next" /\ drain.remaining > 0) =>
              /\ ret' = SomeKV(DrainRest[1][1], DrainRest[1][2])
              /\ Cardinality(alloc \ alloc') = 1
        /\ (op' = "drain_next_back" /\ drain.remaining > 0) =>
              /\ ret' = SomeKV(DrainRest[Len(DrainRest)][1], DrainRest[Len(DrainRest)][2])
              /\ Cardinality(alloc \ alloc') = 1
        /\ (op' # "drain_drop" /\ drain.remaining = 0) =>
              (ret' = None /\ alloc' = alloc)
        /\ op' = "drain_drop" =>
              (alloc \ alloc' = DrainHeld /\ ~drain'.active)

(* in every state: nothing was released twice or used after release; the   *)
(* Drain holds, in the original order, exactly the pairs it has not yet    *)
(* yielded, in initialized nodes that are none of the container's; and the *)
(* container is a well-formed one that holds what was put into it since    *)
(* drain() as a new container would                                        *)
DrainApart ==
    /\ ~ub
    /\ DrainHeld \subseteq alloc
    /\ DrainHeld \cap OwnedNodes(Cur) = {}
    /\ alloc = DrainHeld \cup OwnedNodes(Cur)
    /\ \A p \in DrainHeld : Initialized(p)
    /\ drain.active =>
          /\ Len(dlog.fwd) + Len(dlog.bwd) + drain.remaining = Len(dlog.items)
          /\ Cardinality(DrainHeld) = drain.remaining
          /\ DrainSeq(drain.head, drain.remaining) = DrainRest
          /\ dlog.ins.ok => dlog.items = dlog.ins.seq
    /\ ~dropped.done =>
          /\ KeysOf(iter(Cur)) = present
          /\ len(Cur) = Cardinality(present)
          /\ hist.ok => iter(Cur) = hist.seq
    /\ Len(iter(Cur)) = len(Cur)
    /\ \A p \in IndexNodes(Cur) \cup GuardSet :
          {heap[p].prev, heap[p].next} \subseteq IndexNodes(Cur) \cup GuardSet
    /\ \A p \in Nodes \ alloc : heap[p] = BlankNode

(* C28: under every interleaving of container operations (insert, remove,  *)
(* pop, clear, shrink_to_fit, a second drain, destruction) with next,      *)
(* next_back and drop on an outstanding Drain, the Drain yields exactly    *)
(* the pairs live at drain() in the original order, the container behaves  *)
(* as a new one, neither touches a node of the other, and no node is       *)
(* released twice or used after its release.                               *)
C28_DrainSharesNothing ==
    [][ContainerStepApart /\ DrainStepApart]_vars /\ []DrainApart

(* the Drain has yielded one pair from each end while the container took  *)
(* two new entries in between                                              *)
C28_Witness ==
    /\ op = "drain_next_back"
    /\ drain.active
    /\ Len(dlog.items) = 2
    /\ Len(dlog.fwd) = 1
    /\ Len(dlog.bwd) = 1
    /\ ret.tag = "SomeKV"
    /\ len(Cur) = 2
    /\ head # NULL
    /\ hist.ok
    /\ ~ub

MapIdle == ~drain.active

(* No Drain is outstanding, no Iter borrows the container, and the         *)
(* container has not been destroyed.                                       *)
MapFree == ~drain.active /\ ~it.active /\ ~dropped.done

Next ==
    \/ MapIdle /\ \E k \in Keys, v \in Values : Insert(k, v)
    \/ MapIdle /\ \E k \in Keys : Remove(k)
    \/ MapIdle /\ PopFront
    \/ MapIdle /\ PopBack
    \/ MapIdle /\ Clear
    \/ MapIdle /\ ShrinkToFit
    \/ MapIdle /\ \E additional \in 1..MaxCap : Reserve(additional)
    \/ MapIdle /\ DrainCall
    \/ MapIdle /\ \E k \in Keys : Get(k)
    \/ MapIdle /\ \E k \in Keys : GetKeyValue(k)
    \/ MapIdle /\ \E k \in Keys : ContainsKey(k)
    \/ MapIdle /\ \E k \in Keys, v \in Values : GetMut(k, v)
    \/ MapIdle /\ Front
    \/ MapIdle /\ Back
    \/ MapIdle /\ \E k \in Keys : IndexOp(k)
    \/ MapIdle /\ \E k \in Keys, v \in Values : IndexMutOp(k, v)
    \/ MapIdle /\ \E k \in Keys : OccupiedToBack(k)
    \/ MapIdle /\ \E k \in Keys : OccupiedToFront(k)
    \/ MapIdle /\ \E k \in Keys : OccupiedRemoveEntry(k)
    \/ MapIdle /\ \E k \in Keys, v \in Values : VacantInsert(k, v)
    \/ DrainNext
    \/ DrainNextBack
    \/ DrainDrop

Spec == Init /\ [][Next]_vars

(* The container with its iterator and its destructor. *)
NextLife ==
    \/ MapFree /\ \E k \in Keys, v \in Values : Insert(k, v)
    \/ MapFree /\ \E k \in Keys : Remove(k)
    \/ MapFree /\ PopFront
    \/ MapFree /\ \E k \in Keys : OccupiedToFront(k)
    \/ MapFree /\ Clear
    \/ MapFree /\ \E k \in Keys : Get(k)
    \/ MapFree /\ \E k \in Keys : GetKeyValue(k)
    \/ MapFree /\ \E k \in Keys : ContainsKey(k)
    \/ MapFree /\ \E k \in Keys, v \in Values : GetMut(k, v)
    \/ MapFree /\ Front
    \/ MapFree /\ Back
    \/ MapFree /\ \E k \in Keys : IndexOp(k)
    \/ MapFree /\ \E k \in Keys, v \in Values : IndexMutOp(k, v)
    \/ MapFree /\ IterCall
    \/ IterNext
    \/ IterNextBack
    \/ IterEnd
    \/ MapFree /\ DropMap

SpecLife == Init /\ [][NextLife]_vars

(* The container with the entry API. *)
NextEntry ==
    \/ MapFree /\ \E k \in Keys, v \in Values : Insert(k, v)
    \/ MapFree /\ \E k \in Keys : Remove(k)
    \/ MapFree /\ PopFront
    \/ MapFree /\ PopBack
    \/ MapFree /\ ShrinkToFit
    \/ MapFree /\ \E k \in Keys : OccupiedToBack(k)
    \/ MapFree /\ \E k \in Keys : OccupiedToFront(k)
    \/ MapFree /\ \E k \in Keys, v \in Values : VacantInsert(k, v)
    \/ MapFree /\ \E k \in Keys, v \in Values : EntryOrInsert(k, v)
    \/ MapFree /\ \E k \in Keys, v \in Values : OccupiedEntryInsert(k, v)
    \/ MapFree /\ \E k \in Keys, v \in Values : OccupiedReplaceEntry(k, v)
    \/ MapFree /\ \E k \in Keys : OccupiedReplaceKey(k)

SpecEntry == Init /\ [][NextEntry]_vars

(* Every operation of the container, its entry API, its Iter, its Drain    *)
(* and its destructor, in the orders the borrow rules allow.               *)
NextAll ==
    \/ MapFree /\ \E k \in Keys, v \in Values : Insert(k, v)
    \/ MapFree /\ \E k \in Keys : Remove(k)
    \/ MapFree /\ PopFront
    \/ MapFree /\ PopBack
    \/ MapFree /\ Clear
    \/ MapFree /\ ShrinkToFit
    \/ MapFree /\ \E additional \in 1..MaxCap : Reserve(additional)
    \/ MapFree /\ \E k \in Keys : Get(k)
    \/ MapFree /\ \E k \in Keys, v \in Values : GetMut(k, v)
    \/ MapFree /\ Front
    \/ MapFree /\ Back
    \/ MapFree /\ \E k \in Keys : OccupiedToBack(k)
    \/ MapFree /\ \E k \in Keys : OccupiedToFront(k)
    \/ MapFree /\ \E k \in Keys : OccupiedRemoveEntry(k)
    \/ MapFree /\ \E k \in Keys, v \in Values : VacantInsert(k, v)
    \/ MapFree /\ \E k \in Keys, v \in Values : EntryOrInsert(k, v)
    \/ MapFree /\ \E k \in Keys, v \in Values : OccupiedEntryInsert(k, v)
    \/ MapFree /\ \E k \in Keys, v \in Values : OccupiedReplaceEntry(k, v)
    \/ MapFree /\ \E k \in Keys : OccupiedReplaceKey(k)
    \/ MapFree /\ IterCall
    \/ IterNext
    \/ IterNextBack
    \/ IterEnd
    \/ MapFree /\ DrainCall
    \/ DrainNext
    \/ DrainNextBack
    \/ DrainDrop
    \/ MapFree /\ DropMap

SpecAll == Init /\ [][NextAll]_vars

(* the keys used next to an outstanding Drain *)
DrainKeys == 1..(MaxKey - 1)

(* The container has not been destroyed. *)
MapAlive == ~dropped.done

(* A Drain borrows nothing: the container is used while it is outstanding. *)
NextDrain ==
    \/ MapAlive /\ \E k \in DrainKeys : Insert(k, (k % MaxVal) + 1)
    \/ MapAlive /\ \E k \in DrainKeys : Remove(k)
    \/ MapAlive /\ PopFront
    \/ MapAlive /\ PopBack
    \/ MapAlive /\ Clear
    \/ MapAlive /\ ShrinkToFit
    \/ MapAlive /\ MapIdle /\ DrainCall
    \/ MapAlive /\ DrainDropped
    \/ MapAlive /\ DropMap
    \/ DrainNext
    \/ DrainNextBack
    \/ DrainDrop

SpecDrain == Init /\ [][NextDrain]_vars

====
